---- MODULE Spec2Model ----
(***************************************************************************)
(* efibootgen: a model of the disk image writer (sector writer, CRC32,     *)
(* logical file tree, GPT engine, FAT formatter and the orchestrating      *)
(* main) of src/unnamed/part_001, lines 1..1078 and 2546..2678.            *)
(*                                                                         *)
(* Number representation.  TLC integers are 32 bits wide, the program's    *)
(* size_t and uint64_t are 64 bits wide.  A 64-bit word is held as its     *)
(* signed representative (the value it has as an int64_t), which is exact  *)
(* for +, - and for the serialisation into bytes as long as magnitudes     *)
(* stay small; unsigned comparisons go through ULe/ULt.  A 32-bit word     *)
(* whose value may exceed 2^31 (CRC values, the MBR size field) is held as *)
(* the pair <<high 16 bits, low 16 bits>>.  File positions are counted in  *)
(* 512-byte sectors: every seek and write of the program is a multiple of  *)
(* the sector size.                                                        *)
(***************************************************************************)
EXTENDS Integers, Sequences, FiniteSets, TLC

kSectorSizeBytes == 512

(***************************************************************************)
(* 16/32-bit word helpers                                                  *)
(***************************************************************************)
RECURSIVE XorBits(_, _, _)
XorBits(a, b, n) ==
    IF n = 0 THEN 0
    ELSE ((a + b) % 2) + 2 * XorBits(a \div 2, b \div 2, n - 1)

\* exclusive or of 4-bit, 8-bit and 16-bit words
XorNibble == [a \in 0..15 |-> [b \in 0..15 |-> XorBits(a, b, 4)]]
Xor8(a, b) == XorNibble[a % 16][b % 16] + 16 * XorNibble[a \div 16][b \div 16]
Xor16(a, b) == Xor8(a % 256, b % 256) + 256 * Xor8(a \div 256, b \div 256)
Xor32(x, y) == <<Xor16(x[1], y[1]), Xor16(x[2], y[2])>>
Not32(x) == <<65535 - x[1], 65535 - x[2]>>
Shr1(x) == <<x[1] \div 2, (x[2] \div 2) + (x[1] % 2) * 32768>>
Shr8(x) == <<x[1] \div 256, (x[2] \div 256) + (x[1] % 256) * 256>>
\* a non-negative integer below 2^31 as a 32-bit word
ToU32(n) == <<(n \div 65536) % 65536, n % 65536>>
\* truncation of a 64-bit word (signed representative) to 32 bits
TruncU32(v) == <<(v \div 65536) % 65536, v % 65536>>
U32Max == <<65535, 65535>>
\* the four little-endian bytes of a 32-bit word
BytesOfU32(x) == <<x[2] % 256, x[2] \div 256, x[1] % 256, x[1] \div 256>>
RECURSIVE BytesLE(_, _)
\* the n little-endian bytes of a 64-bit word held as signed representative
BytesLE(v, n) == IF n = 0 THEN <<>> ELSE <<v % 256>> \o BytesLE(v \div 256, n - 1)
BytesOfU64(v) == BytesLE(v, 8)

\* unsigned comparison of 64-bit words held as signed representatives
ULt(a, b) == IF (a < 0) = (b < 0) THEN a < b ELSE b < 0
ULe(a, b) == a = b \/ ULt(a, b)

(***************************************************************************)
(* utils::rc_crc32                                                         *)
(***************************************************************************)
kCrcPoly == <<60856, 33568>>    \* 0xedb88320

RECURSIVE CrcRem(_, _)
CrcRem(rem, j) ==
    IF j = 0 THEN rem
    ELSE CrcRem(IF rem[2] % 2 = 1 THEN Xor32(Shr1(rem), kCrcPoly) ELSE Shr1(rem), j - 1)

\* a table that the first call leaves zeroed
BuiltTable_zeroed == [i \in 0..255 |-> <<0, 0>>]
\* the table as the first call builds it
BuiltTable == [i \in 0..255 |-> CrcRem(<<0, i>>, 8)]
\* the static table before the first call (zero-initialised)
EmptyTable == [i \in 0..255 |-> <<0, 0>>]

\* the loop over the bytes buf[lo..hi], split in halves to keep the
\* evaluation shallow; one byte is  crc = (crc >> 8) ^ table[(crc & 0xff) ^ octet]
RECURSIVE CrcLoop(_, _, _, _, _)
CrcLoop(table, crc, buf, lo, hi) ==
    IF lo > hi THEN crc
    ELSE IF lo = hi
    THEN Xor32(Shr8(crc), table[Xor8(crc[2] % 256, buf[lo])])
    ELSE LET mid == (lo + hi) \div 2
             left == CrcLoop(table, crc, buf, lo, mid)
         IN  \* the test makes TLC compute the left half before the right one
             IF left[1] >= 0 THEN CrcLoop(table, left, buf, mid + 1, hi) ELSE left

\* st = [have_table, table] is the function's static state; the result
\* carries the state after the call and the returned value
rc_crc32(st, crc, buf) ==
    LET tab == IF st.have_table = 0 THEN BuiltTable ELSE st.table
    IN  [st |-> [have_table |-> 1, table |-> tab],
         value |-> Not32(CrcLoop(tab, Not32(crc), buf, 1, Len(buf)))]

(***************************************************************************)
(* Bounds of the model                                                     *)
(***************************************************************************)
\* nodes (directories and files) of the logical tree besides the root
MaxNodes == 3
\* names available in one directory; name k is the letter 'A' + k - 1, so
\* the std::map order of two names is the order of their numbers
MaxNames == 2
\* outcomes of the random GUID generator that are told apart
MaxGuid == 1

\* direct calls of the writer's methods: LBAs passed are 0..MaxLba, the
\* origin stays within MaxOrigin, and at most MaxWrites sectors are written
MaxLba == 2
MaxOrigin == 4
MaxWrites == 2

\* sizes in bytes of the files put into the tree
FileSizes == {4, 2049}
\* an output file found on disk before the run, as <<whole sectors, extra
\* bytes>>: absent (<<0, -1>>), one whose partition has no sector, 128 MiB,
\* the two whose partitions have 0x20000000 - 512 and 0x20000000 bytes (the
\* first ends in a sector of 3 bytes), and 8 GiB
NoFile == <<0, -1>>
ExistingFiles == {NoFile, <<37, 0>>, <<262144, 0>>, <<1048611, 3>>, <<1048613, 0>>,
                  <<16777216, 0>>}
\* the volume labels passed to the formatter: "", "NOLABEL" and the 12
\* characters "ABCDEFGHIJKL"
Labels == {<<>>, <<78, 79, 76, 65, 66, 69, 76>>,
           <<65, 66, 67, 68, 69, 70, 71, 72, 73, 74, 75, 76>>}

\* what utils::uuid::rand_int returns for the volume serial: 0..15
VolumeSerials == {7}
\* values an uninitialised _start_cluster may hold
JunkClusters == {0, 2}
\* what lies in memory behind a file's buffer: zero bytes, or other bytes
HeapBytes == {"zero", "junk"}

\* the buffers rc_crc32 is called on directly: "123456789", "" and "a"
kCrcCheckInput == <<49, 50, 51, 52, 53, 54, 55, 56, 57>>
CrcInputs == {kCrcCheckInput, <<>>, <<97>>}

GuidOf(k) == [i \in 1..16 |-> (i * k) % 16]
Guids == {GuidOf(k) : k \in 0..MaxGuid}

(***************************************************************************)
(* State                                                                   *)
(***************************************************************************)
VARIABLES
    pc,          \* position of main: "build", "writer", "blank", "gpt", "done", "aborted"
    fs,          \* fs_t: [nodes: path -> node, _size]
    writer,      \* disk_sector_writer_t with its fstream and the file behind it
    crc_static,  \* the static table of rc_crc32
    part_info,   \* gpt::partition_info_t returned by the GPT engine
    fat_result,  \* what create_fat_partition returned
    fat_geom,    \* the geometry create_fat_partition computed
    fat_oob,     \* whether the FAT walk stored outside its sector buffer
    label,       \* the volume label option
    _reformat,   \* disktools::_reformat
    probe        \* the last direct call of a writer method or of rc_crc32, and its result

\* no direct call has been made
NoProbe == [op |-> "none", lba |-> 0, origin |-> 0, was_good |-> FALSE,
            buf |-> <<>>, value |-> <<0, 0>>, had_table |-> 0]

vars == <<pc, fs, writer, crc_static, part_info, fat_result, fat_geom, fat_oob, label, _reformat, probe>>

(***************************************************************************)
(* Sector contents.  A sector is a record tagged by what was serialised    *)
(* into it; equal records are equal byte for byte.                         *)
(***************************************************************************)
ZeroSector == [kind |-> "zero"]
\* a sector of an earlier image that this run has not written
StaleSector == [kind |-> "stale"]

(***************************************************************************)
(* fs_t                                                                    *)
(***************************************************************************)
Root == <<>>
Parent(p) == SubSeq(p, 1, Len(p) - 1)
\* fs_t::fs_t: the root is value-initialised, its _start_cluster is 0
EmptyFs ==
    [nodes |-> (Root :> [_is_dir |-> TRUE, _size |-> 0, _start_cluster |-> 0, assigned |-> TRUE]),
     _size |-> 0]

\* the entries of a directory in std::map order
Children(nodes, d) ==
    {p \in DOMAIN nodes : Len(p) = Len(d) + 1 /\ Parent(p) = d}

create_directory(f, parent, name) ==
    LET p == Append(parent, name)
    IN  [nodes |-> f.nodes @@ (p :> [_is_dir |-> TRUE, _size |-> 0,
                                     _start_cluster |-> 0, assigned |-> FALSE]),
         _size |-> f._size + kSectorSizeBytes]

create_file(f, parent, name, size) ==
    LET p == Append(parent, name)
    IN  [nodes |-> f.nodes @@ (p :> [_is_dir |-> FALSE, _size |-> size,
                                     _start_cluster |-> 0, assigned |-> FALSE]),
         _size |-> f._size + size]

(***************************************************************************)
(* disk_sector_writer_t.  fs_* are the fstream: its good bit, its put      *)
(* position, and the file behind it (length fs_len, sectors written in     *)
(* this run fs_data, sectors below fs_stale keep an earlier image's        *)
(* bytes until written).  log is the sequence of absolute sectors written. *)
(***************************************************************************)
\* std::fstream::pos_type(-1), what tellp returns on a failed stream
kPosFail == -1
\* fs_fail_after of a device that takes every sector
kNeverFails == 0 - 1

ReadSector(w, lba) ==
    IF lba \in DOMAIN w.fs_data THEN w.fs_data[lba]
    ELSE IF lba >= 0 /\ lba < w.fs_stale THEN StaleSector
    ELSE ZeroSector

good(w) == w.fs_good
last_lba(w) == w._total_sectors - 1

\* ostream::seekp: nothing on a failed stream, failbit for a negative offset
seekp(w, off) ==
    IF ~w.fs_good THEN w
    ELSE IF off < 0 THEN [w EXCEPT !.fs_good = FALSE]
    ELSE [w EXCEPT !.fs_pos = off]

tellp(w) == IF w.fs_good THEN w.fs_pos ELSE kPosFail

\* a write that does not look at the stream's state
fs_write_unchecked(w, secs) ==
    IF Len(secs) = 0 THEN w
    ELSE [w EXCEPT
            !.fs_data = [l \in (DOMAIN w.fs_data) \cup (w.fs_pos .. (w.fs_pos + Len(secs) - 1)) |->
                            IF l >= w.fs_pos /\ l < w.fs_pos + Len(secs)
                            THEN secs[l - w.fs_pos + 1] ELSE w.fs_data[l]],
            !.fs_pos = w.fs_pos + Len(secs),
            !.fs_len = IF w.fs_pos + Len(secs) > w.fs_len THEN w.fs_pos + Len(secs) ELSE w.fs_len,
            !.log = w.log \o [i \in 1..Len(secs) |-> w.fs_pos + i - 1]]
\* ostream::write of the sectors secs at the put position.  The device
\* behind the file takes fs_fail_after more sectors and refuses the next
\* one (kNeverFails: it takes every sector); a refused sector sets badbit.
fs_write(w, secs) ==
    IF ~w.fs_good \/ Len(secs) = 0 THEN w
    ELSE IF w.fs_fail_after # kNeverFails /\ Len(secs) > w.fs_fail_after
    THEN LET taken == SubSeq(secs, 1, w.fs_fail_after)
         IN  [w EXCEPT
                !.fs_data = [l \in (DOMAIN w.fs_data) \cup (w.fs_pos .. (w.fs_pos + Len(taken) - 1)) |->
                                IF l >= w.fs_pos /\ l < w.fs_pos + Len(taken)
                                THEN taken[l - w.fs_pos + 1] ELSE w.fs_data[l]],
                !.fs_pos = w.fs_pos + Len(taken),
                !.fs_len = IF w.fs_pos + Len(taken) > w.fs_len THEN w.fs_pos + Len(taken) ELSE w.fs_len,
                !.log = w.log \o [i \in 1..Len(taken) |-> w.fs_pos + i - 1],
                !.fs_fail_after = 0,
                !.fs_good = FALSE]
    ELSE [w EXCEPT
            !.fs_fail_after = IF w.fs_fail_after = kNeverFails THEN kNeverFails
                              ELSE w.fs_fail_after - Len(secs),
            !.fs_data = [l \in (DOMAIN w.fs_data) \cup (w.fs_pos .. (w.fs_pos + Len(secs) - 1)) |->
                            IF l >= w.fs_pos /\ l < w.fs_pos + Len(secs)
                            THEN secs[l - w.fs_pos + 1] ELSE w.fs_data[l]],
            !.fs_pos = w.fs_pos + Len(secs),
            !.fs_len = IF w.fs_pos + Len(secs) > w.fs_len THEN w.fs_pos + Len(secs) ELSE w.fs_len,
            !.log = w.log \o [i \in 1..Len(secs) |-> w.fs_pos + i - 1]]

reset(w) == IF good(w) THEN seekp(w, w._start_pos) ELSE w

set_pos(w, lba) ==
    IF good(w)
    THEN LET w1 == seekp(w, w._start_pos + lba)
         IN  [w1 EXCEPT !._start_pos = tellp(w1)]
    ELSE w

\* blank_sector(count): the buffer holds count zeroed sectors afterwards
blank_sector(w, count) == [w EXCEPT !._sectors_in_buffer = count]

\* write_at(lba, sector_count) with the buffer contents buf
write_at(w, buf, lba, sector_count) ==
    LET w1 == seekp(w, w._start_pos + lba)
    IN  IF ~w1.fs_good THEN w1 ELSE fs_write(w1, SubSeq(buf, 1, sector_count))

write_at_ex(w, buf, lba, src_sector_offset, sector_count) ==
    LET w1 == seekp(w, w._start_pos + lba)
    IN  IF ~w1.fs_good \/ sector_count > w1._sectors_in_buffer THEN w1
        ELSE fs_write(w1, SubSeq(buf, src_sector_offset + 1, src_sector_offset + sector_count))

write_sector(w, buf) == fs_write(w, SubSeq(buf, 1, 1))

NoWriter ==
    [fs_good |-> FALSE, fs_pos |-> 0, fs_len |-> 0, fs_stale |-> 0,
     fs_data |-> <<>>, log |-> <<>>, fs_fail_after |-> kNeverFails,
     _start_pos |-> 0, _total_sectors |-> 0, _sectors_in_buffer |-> 1,
     _use_existing_image |-> FALSE]

\* round a byte count up to the next multiple of 128 MiB, in sectors:
\* (content_size + (0x8000000 - 1)) & ~(0x8000000 - 1), divided by 512
k128MiBSectors == 262144
RoundUp128MiB(content_size) ==
    ((content_size + (k128MiBSectors * kSectorSizeBytes - 1)) \div (k128MiBSectors * kSectorSizeBytes))
        * k128MiBSectors

\* create_writer(oName, content_size) with the file `existing' found at
\* oName.  The result is the writer the constructor leaves behind.
create_writer(reformat, existing, content_size) ==
    LET size == RoundUp128MiB(content_size)
        found == reformat /\ existing # NoFile
        using_existing == found /\ existing[1] >= size
        \* a second open() of a stream that is already open fails and sets failbit
        open_ok == ~found \/ using_existing
        blocks == IF using_existing
                  THEN existing[1] + (IF existing[2] > 0 THEN 1 ELSE 0)
                  ELSE size
        stale == IF found THEN existing[1] + (IF existing[2] > 0 THEN 1 ELSE 0) ELSE 0
    IN  [fs_good |-> open_ok, fs_pos |-> 0,
         fs_len |-> stale, fs_stale |-> stale,
         fs_data |-> <<>>, log |-> <<>>, fs_fail_after |-> kNeverFails,
         _start_pos |-> IF open_ok THEN 0 ELSE kPosFail,
         _total_sectors |-> blocks, _sectors_in_buffer |-> 1,
         _use_existing_image |-> using_existing]

\* create_blank_image: _total_sectors zero sectors from the start position
create_blank_image(w) ==
    LET w1 == reset(w)
        w2 == IF good(w1)
              THEN [w1 EXCEPT !.fs_pos = w1.fs_pos + w1._total_sectors,
                              !.fs_len = IF w1.fs_pos + w1._total_sectors > w1.fs_len
                                         THEN w1.fs_pos + w1._total_sectors ELSE w1.fs_len,
                              !.fs_stale = 0,
                              !.fs_data = <<>>]
              ELSE w1
    IN  reset(w2)

(***************************************************************************)
(* gpt::create_efi_boot_image                                              *)
(***************************************************************************)
kGptProtectivePartitionOSType == 238    \* 0xee
kMBRSignature == 43605                  \* 0xaa55
kEfiPartSignature == <<69, 70, 73, 32, 80, 65, 82, 84>>     \* "EFI PART"
kEfiRevision == <<1, 0>>                \* 0x00010000
kEfiSystemPartitionUuid == <<40, 115, 42, 193, 31, 248, 210, 17, 186, 75, 0, 160, 201, 62, 201, 59>>
kEfiBootPartName == <<69, 70, 73, 32, 66, 79, 79, 84>>      \* "EFI BOOT"
kGptHeaderSize == 92                    \* sizeof(gpt_header)
kGptPartitionHeaderSize == 128          \* sizeof(gpt_partition_header)
kFirstUsableLba == 34
\* writer->size() > 0xffffffff, size() being _total_sectors * 512: in
\* sectors, _total_sectors >= 2^23
kU32BytesInSectors == 8388608

\* the 92 bytes of a gpt_header (packed, little-endian)
GptHeaderBytes(h) ==
    h._signature \o BytesOfU32(h._revision) \o BytesOfU32(ToU32(h._header_size))
    \o BytesOfU32(h._header_crc32) \o <<0, 0, 0, 0>>
    \o BytesOfU64(h._my_lba) \o BytesOfU64(h._alternate_lba)
    \o BytesOfU64(h._first_usable_lba) \o BytesOfU64(h._last_usable_lba)
    \o h._disk_guid \o BytesOfU64(h._partition_entry_lba)
    \o BytesOfU32(ToU32(h._partition_entry_count)) \o BytesOfU32(ToU32(h._partition_entry_size))
    \o BytesOfU32(h._partition_array_crc32)

\* the 128 bytes of a gpt_partition_header
GptPartitionBytes(e) ==
    e._type_guid \o e._part_guid \o BytesOfU64(e._start_lba) \o BytesOfU64(e._end_lba)
    \o BytesOfU64(e._attributes) \o e._name

GptHeaderSector(h) == [kind |-> "gpt_header", hdr |-> h]
GptPartitionSector(e) == [kind |-> "gpt_partition", part |-> e]

\* the protective MBR sector
ProtectiveMbr(w) ==
    [kind |-> "mbr",
     _boot_indicator |-> 0,
     _starting_chs |-> <<0, 2, 0>>,
     _os_type |-> kGptProtectivePartitionOSType,
     _ending_chs |-> <<255, 255, 255>>,
     _starting_lba |-> ToU32(1),
     _size_in_lba |-> IF ~ULt(w._total_sectors, kU32BytesInSectors)
                      THEN U32Max
                      ELSE TruncU32(last_lba(w)),
     signature |-> kMBRSignature]

\* the backup header's partition_entry_lba
BackupPartitionEntryLba(w) == last_lba(w) - 1
\* the last usable LBA: "minus backup GPT + backup array"
LastUsableLba(w) == last_lba(w) - 2
\* std::swap(_my_lba, _alternate_lba) without the swap
LinkBack_unswapped(h) == h
\* link back: std::swap(_my_lba, _alternate_lba)
LinkBack(h) == [h EXCEPT !._my_lba = h._alternate_lba, !._alternate_lba = h._my_lba]
\* the backup CRC computed over the header still carrying the primary CRC
BackupCrcField_stale(h) == h._header_crc32
\* the header_crc32 field as it stands when the backup CRC is computed
BackupCrcField(h) == <<0, 0>>

\* returns [w, st, info]: the writer, rc_crc32's static state and the
\* partition_info_t after the call
create_efi_boot_image(w0, st0, disk_guid, part_guid) ==
    LET wa == write_at(blank_sector(w0, 1), <<ProtectiveMbr(w0)>>, 0, 1)
        wb == blank_sector(wa, 2)
        h0 == [_signature |-> kEfiPartSignature,
               _revision |-> kEfiRevision,
               _header_size |-> kGptHeaderSize,
               _header_crc32 |-> <<0, 0>>,
               _my_lba |-> 1,
               _alternate_lba |-> last_lba(wb),
               _first_usable_lba |-> kFirstUsableLba,
               _last_usable_lba |-> LastUsableLba(wb),
               _disk_guid |-> disk_guid,
               _partition_entry_lba |-> 2,
               _partition_entry_count |-> 1,
               _partition_entry_size |-> kGptPartitionHeaderSize,
               _partition_array_crc32 |-> <<0, 0>>]
        part == [_type_guid |-> kEfiSystemPartitionUuid,
                 _part_guid |-> part_guid,
                 _start_lba |-> h0._first_usable_lba,
                 _end_lba |-> h0._last_usable_lba,
                 _attributes |-> 1,
                 _name |-> kEfiBootPartName \o [i \in 1..64 |-> 32]]
        c1 == rc_crc32(st0, <<0, 0>>, GptPartitionBytes(part))
        h1 == [h0 EXCEPT !._partition_array_crc32 = c1.value]
        c2 == rc_crc32(c1.st, <<0, 0>>, GptHeaderBytes(h1))
        h2 == [h1 EXCEPT !._header_crc32 = c2.value]
        \* this writes both header and array sectors
        wc == write_at(wb, <<GptHeaderSector(h2), GptPartitionSector(part)>>, 1, 2)
        \* link back
        h3 == [LinkBack(h2) EXCEPT !._partition_entry_lba = BackupPartitionEntryLba(wc)]
        h4 == [h3 EXCEPT !._header_crc32 = BackupCrcField(h3)]
        c3 == rc_crc32(c2.st, <<0, 0>>, GptHeaderBytes(h4))
        h5 == [h4 EXCEPT !._header_crc32 = c3.value]
        buf == <<GptHeaderSector(h5), GptPartitionSector(part)>>
        wd == write_at_ex(wc, buf, h5._my_lba - 1, 1, 1)
        we == write_at_ex(wd, buf, h5._my_lba, 0, 1)
        info == [_first_usable_lba |-> h5._first_usable_lba,
                 _last_usable_lba |-> h5._last_usable_lba]
    IN  [w |-> set_pos(we, h5._first_usable_lba), st |-> c3.st, info |-> info]

\* partition_info_t::num_sectors
num_sectors(info) == info._last_usable_lba - info._first_usable_lba

(***************************************************************************)
(* fat: the FAT formatter                                                  *)
(***************************************************************************)
kFat16EOC == 65528                      \* 0xfff8
kFat32EOC == 268435448                  \* 0x0ffffff8
kMediaDescriptor == 248                 \* 0xf8
kNumFats == 2
kVolumeId == 8                          \* fat_file_attribute::kVolumeId
kDirectory == 16                        \* fat_file_attribute::kDirectory
kDirEntrySize == 32                     \* sizeof(fat_dir_entry_t)
kMaxClustersPerFat16Sector == 256       \* kSectorSizeBytes / sizeof(uint16_t)
kShortNameLen == 11
\* a threshold that also takes a volume of exactly 0x20000000 bytes as FAT16
kFat32MinSectors_inclusive == 1048576 + 1
\* any volume of size < 0x20000000 bytes is FAT16: in sectors, < 2^20
kFat32MinSectors == 1048576
\* the head-count ladder 0x1f800000, 0x3f000000, 0x7e000000, 0xfc000000 bytes, in sectors
kHeadsLadder == <<<<1032192, 16>>, <<2064384, 32>>, <<4128768, 64>>, <<8257536, 128>>>>
\* a table with clusters of half the size
kDiskTableFat16_small_clusters == <<<<262144, 2>>, <<524288, 4>>, <<1048576, 8>>>>
\* disks up to 128 MB: 2k cluster, up to 256 MB: 4k, up to 512 MB: 8k
kDiskTableFat16 == <<<<262144, 4>>, <<524288, 8>>, <<1048576, 16>>>>
\* the last limit, 0xFFFFFFFF, is above every sector count of the model
kDiskTableFat32 == <<<<16777216, 8>>, <<33554432, 16>>, <<67108864, 32>>, <<2147483647, 64>>>>

\* the first entry of a {limit, value} table whose limit is not below n, or dflt
RECURSIVE TableLookup(_, _, _, _)
TableLookup(tab, n, i, dflt) ==
    IF i > Len(tab) THEN dflt
    ELSE IF ULe(n, tab[i][1]) THEN tab[i][2]
    ELSE TableLookup(tab, n, i + 1, dflt)

\* fat_dir_entry_t::set_name: 11 bytes, blank padded, cut at 11
set_name(name) ==
    [i \in 1..kShortNameLen |-> IF i <= Len(name) THEN name[i] ELSE 32]
\* the memset/memcpy pair that fills the BPB's volume label
BpbVolumeLabel(volumeLabel) ==
    [i \in 1..kShortNameLen |-> IF i <= Len(volumeLabel) THEN volumeLabel[i] ELSE 32]

\* the map key of a node: name k is the letter 'A' + k - 1
NameStr(p) == <<64 + p[Len(p)]>>
kDotName == <<46>>
kDotDotName == <<46, 46>>

\* the elements of a set of paths below one directory, in std::map order
RECURSIVE SortByName(_)
SortByName(S) ==
    IF S = {} THEN <<>>
    ELSE LET m == CHOOSE x \in S : \A y \in S : x[Len(x)] <= y[Len(y)]
         IN  <<m>> \o SortByName(S \ {m})
Entries(nodes, d) == SortByName(Children(nodes, d))

\* _start_cluster as a read finds it: the assigned value, or whatever the
\* uninitialised member holds
StartCluster(nodes, p, junk) ==
    IF nodes[p].assigned THEN nodes[p]._start_cluster ELSE junk

(***************************************************************************)
(* write_fat16_context_t and write_fat16.  The walk is the sequence of its *)
(* steps: "dir" = lines 421-423, "file" = lines 431-468, "check" = the     *)
(* check_need_new_sector of line 476, which for a directory runs after the *)
(* recursion of line 424.                                                  *)
(***************************************************************************)
RECURSIVE WalkSteps(_, _)
RECURSIVE WalkStepsOf(_, _, _)
WalkStepsOf(nodes, es, i) ==
    IF i > Len(es) THEN <<>>
    ELSE (IF nodes[es[i]]._is_dir
          THEN <<[step |-> "dir", node |-> es[i]]>> \o WalkSteps(nodes, es[i])
          ELSE <<[step |-> "file", node |-> es[i]]>>)
         \o <<[step |-> "check", node |-> es[i]]>>
         \o WalkStepsOf(nodes, es, i + 1)
WalkSteps(nodes, d) == WalkStepsOf(nodes, Entries(nodes, d), 1)

Fat16Sector(entries) == [kind |-> "fat16", entries |-> entries]
BlankFat16 == [i \in 0..(kMaxClustersPerFat16Sector - 1) |-> 0]

\* *_fat16++ = v; a store at or past _fat16_end leaves the sector buffer
Fat16Store(ctx, v) ==
    IF ctx.idx >= 0 /\ ctx.idx < kMaxClustersPerFat16Sector
    THEN [ctx EXCEPT !.sec = [ctx.sec EXCEPT ![ctx.idx] = v % 65536], !.idx = ctx.idx + 1]
    ELSE [ctx EXCEPT !.oob = TRUE, !.idx = ctx.idx + 1]

check_need_new_sector(ctx) ==
    IF ctx.idx = kMaxClustersPerFat16Sector
    THEN [ctx EXCEPT !.w = write_sector(ctx.w, <<Fat16Sector(ctx.sec)>>),
                     !._fat_sector = ctx._fat_sector + 1,
                     !.sec = BlankFat16,
                     !.idx = 0]
    ELSE ctx

\* where the first store of the walk goes, as an offset into the FAT sector
FirstFatStoreIndex == 0

\* one turn of the loop of lines 441-450: the store of the next cluster's
\* number, the increment and the check
FileChainStep(ctx) ==
    LET c1 == Fat16Store(ctx, ctx._next_free_cluster)
        c2 == [c1 EXCEPT !._next_free_cluster = c1._next_free_cluster + 1]
    IN  check_need_new_sector(c2)

\* the loop of lines 441-450: n turns, evaluated as two halves
RECURSIVE FileChain(_, _)
FileChain(ctx, n) ==
    IF n = 0 THEN ctx
    ELSE IF n = 1 THEN FileChainStep(ctx)
    ELSE LET half == FileChain(ctx, n \div 2)
         IN  IF half.idx >= 0 THEN FileChain(half, n - (n \div 2)) ELSE half

\* by how much the file branch moves _next_free_cluster after the chain loop
ChainTailAdvance == 1

Fat16WalkStep(ctx, s) ==
    IF s.step = "check" THEN check_need_new_sector(ctx)
    ELSE IF s.step = "dir"
    THEN Fat16Store(
            [ctx EXCEPT !.nodes = [ctx.nodes EXCEPT ![s.node]._start_cluster = ctx._next_free_cluster,
                                                    ![s.node].assigned = TRUE],
                        !._next_free_cluster = ctx._next_free_cluster + 1],
            kFat16EOC)
    ELSE LET num_clusters == (ctx.nodes[s.node]._size + (ctx._bytes_per_cluster - 1))
                                \div ctx._bytes_per_cluster
             c0 == [ctx EXCEPT !.nodes = [ctx.nodes EXCEPT ![s.node]._start_cluster = ctx._next_free_cluster,
                                                           ![s.node].assigned = TRUE],
                               !._next_free_cluster = ctx._next_free_cluster + 1]
         IN  IF num_clusters > 1
             THEN LET c1 == FileChain(c0, num_clusters - 1)
                  IN  Fat16Store([c1 EXCEPT !._next_free_cluster = c1._next_free_cluster + ChainTailAdvance],
                                 kFat16EOC)
             ELSE Fat16Store(c0, kFat16EOC)

RECURSIVE Fat16Walk(_, _, _)
Fat16Walk(ctx, steps, i) ==
    IF i > Len(steps) THEN ctx
    ELSE LET c == Fat16WalkStep(ctx, steps[i])
         IN  IF c.idx >= 0 THEN Fat16Walk(c, steps, i + 1) ELSE c

\* ctx._next_free_cluster = 2 + 1
kFirstFreeCluster_three == 2 + 1
\* ctx._next_free_cluster = 2
kFirstFreeCluster == 2

\* returns the context after the walk and the last flush
write_fat16(w, geom, nodes) ==
    LET ctx0 == [w |-> blank_sector(w, 1),
                 sec |-> [BlankFat16 EXCEPT ![0] = 65280 + geom._media_descriptor,   \* 0xff00 | media
                                            ![1] = kFat16EOC],
                 idx |-> FirstFatStoreIndex,
                 _next_free_cluster |-> kFirstFreeCluster,
                 _fat_sector |-> geom._reserved_sectors,
                 _bytes_per_cluster |-> geom._sectors_per_cluster * kSectorSizeBytes,
                 _entries_per_cluster |-> (geom._sectors_per_cluster * kSectorSizeBytes) \div kDirEntrySize,
                 nodes |-> nodes,
                 oob |-> FALSE]
        ctx1 == Fat16Walk(ctx0, WalkSteps(nodes, Root), 1)
    IN  \* size_t(_fat16_end - _fat16) < kMaxClustersPerFat16Sector
        IF ctx1.idx >= 1 /\ ctx1.idx <= kMaxClustersPerFat16Sector
        THEN [ctx1 EXCEPT !.w = write_sector(ctx1.w, <<Fat16Sector(ctx1.sec)>>)]
        ELSE ctx1

(***************************************************************************)
(* write_file, write_dir, write_fs_contents_to_disk                        *)
(***************************************************************************)
cluster_to_lba(geom, cluster) ==
    geom.first_data_lba + ((cluster - 2) * geom._sectors_per_cluster)

\* a sector of file data: bytes [from, from + len) of the file at path
\* file, then pad bytes ("zero", or "junk" for bytes that are not all
\* zero); overread is the number of bytes memcpy took from beyond the
\* file's buffer
DataSector(file, from, len, pad, overread) ==
    [kind |-> "data", file |-> file, from |-> from, len |-> len, pad |-> pad, overread |-> overread]

\* how many bytes the copy loop takes from the file's buffer for its first sector
FirstCopyLen(size) == kSectorSizeBytes

\* how many times write_file calls write_sector for a file of size bytes:
\* the do-while loop runs once and then while 512 bytes or more are left,
\* and a last call takes what is left
FileSectorCount(size) ==
    IF size < kSectorSizeBytes THEN 1
    ELSE (size \div kSectorSizeBytes) + (IF size % kSectorSizeBytes > 0 THEN 1 ELSE 0)

\* the sectors write_file writes for a file of size bytes, the first one
\* taking the bytes from offset `from' on; heap is what lies behind the
\* file's buffer
FileSectors(file, size, from, heap) ==
    [k \in 1..FileSectorCount(size - from) |->
        LET at == from + ((k - 1) * kSectorSizeBytes)
            bytes_left == size - at
        IN  IF at = 0 \/ bytes_left >= kSectorSizeBytes
            THEN \* memcpy(writer->blank_sector(), bytes, kSectorSizeBytes)
                 LET n == IF at = 0 THEN FirstCopyLen(size) ELSE kSectorSizeBytes
                     have == IF bytes_left < n THEN bytes_left ELSE n
                 IN  DataSector(file, at, have,
                                IF have < kSectorSizeBytes /\ n > have THEN heap ELSE "zero",
                                n - have)
            ELSE DataSector(file, at, bytes_left, "zero", 0)]

\* how write_file positions the stream at the file's first sector
FileSeek(w, file_sector) == set_pos(w, file_sector)

write_file(w, geom, nodes, p, junk, heap) ==
    LET file_sector == cluster_to_lba(geom, StartCluster(nodes, p, junk))
    IN  fs_write(FileSeek(w, file_sector), FileSectors(p, nodes[p]._size, 0, heap))

DirEntry(name, attrib, first_cluster, size) ==
    [_short_name |-> set_name(name), _attrib |-> attrib,
     _first_cluster_lo |-> first_cluster % 65536, _size |-> size]

\* the directory entry of a child, as both write_dir and
\* write_fs_contents_to_disk fill it
ChildEntry(nodes, c, junk) ==
    IF nodes[c]._is_dir
    THEN DirEntry(NameStr(c), kDirectory, StartCluster(nodes, c, junk), 0)
    ELSE DirEntry(NameStr(c), 0, StartCluster(nodes, c, junk), nodes[c]._size)

ChildEntries(nodes, d, junk) ==
    LET es == Entries(nodes, d) IN [i \in 1..Len(es) |-> ChildEntry(nodes, es[i], junk)]

\* entries of 32 bytes that one sector of the scratch buffer holds
kDirEntriesPerSector == kSectorSizeBytes \div kDirEntrySize
\* the sector a directory's entries make: the entries that fit are written
\* to disk, overrun counts the entries stored behind the sector
DirSector(entries) ==
    [kind |-> "dir",
     entries |-> SubSeq(entries, 1, IF Len(entries) > kDirEntriesPerSector
                                    THEN kDirEntriesPerSector ELSE Len(entries)),
     overrun |-> IF Len(entries) > kDirEntriesPerSector
                 THEN Len(entries) - kDirEntriesPerSector ELSE 0]

\* the cluster of a non-root directory
DirClusterEntries(nodes, d, junk) ==
    <<DirEntry(kDotName, kDirectory, StartCluster(nodes, d, junk), 0),
      DirEntry(kDotDotName, kDirectory, StartCluster(nodes, Parent(d), junk), 0)>>
    \o ChildEntries(nodes, d, junk)

\* the nodes below d, each directory before its contents
RECURSIVE PreOrder(_, _)
RECURSIVE PreOrderOf(_, _, _)
PreOrderOf(nodes, es, i) ==
    IF i > Len(es) THEN <<>>
    ELSE <<es[i]>> \o (IF nodes[es[i]]._is_dir THEN PreOrder(nodes, es[i]) ELSE <<>>)
         \o PreOrderOf(nodes, es, i + 1)
PreOrder(nodes, d) == PreOrderOf(nodes, Entries(nodes, d), 1)

\* write_dir's own sector (lines 553-591), or write_file, for node p
EmitNode(w, geom, nodes, p, junk, heap) ==
    IF nodes[p]._is_dir
    THEN write_at(blank_sector(w, 1), <<DirSector(DirClusterEntries(nodes, p, junk))>>,
                  cluster_to_lba(geom, StartCluster(nodes, p, junk)), 1)
    ELSE write_file(w, geom, nodes, p, junk, heap)

RECURSIVE EmitAll(_, _, _, _, _, _, _)
EmitAll(w, geom, nodes, order, i, junk, heap) ==
    IF i > Len(order) THEN w
    ELSE LET w1 == EmitNode(w, geom, nodes, order[i], junk, heap)
         IN  IF w1.fs_pos >= 0 THEN EmitAll(w1, geom, nodes, order, i + 1, junk, heap) ELSE w1

write_fs_contents_to_disk(w, geom, volumeLabel, nodes, junk, heap) ==
    LET root == <<DirEntry(volumeLabel, kVolumeId, 0, 0)>> \o ChildEntries(nodes, Root, junk)
        w1 == write_at(blank_sector(w, 1), <<DirSector(root)>>, geom.root_dir_start_lba, 1)
    IN  EmitAll(w1, geom, nodes, PreOrder(nodes, Root), 1, junk, heap)

(***************************************************************************)
(* create_fat_partition                                                    *)
(***************************************************************************)
\* the geometry and the BPB fields computed before the first write
FatGeometry(total_sectors) ==
    LET fat16 == ULt(total_sectors, kFat32MinSectors)
        reserved == IF fat16 THEN 1 ELSE 32
        root_entry_count == IF fat16 THEN 512 ELSE 0
        spc == TableLookup(IF fat16 THEN kDiskTableFat16 ELSE kDiskTableFat32, total_sectors, 1, 0)
        root_dir_sector_count == ((root_entry_count * 32) + (kSectorSizeBytes - 1)) \div kSectorSizeBytes
        tmp1 == total_sectors - (reserved + root_dir_sector_count)
        tmp2 == IF fat16 THEN (256 * spc) + kNumFats ELSE ((256 * spc) + kNumFats) \div 2
        fatsz == (tmp1 + (tmp2 - 1)) \div tmp2
        first_data_lba == reserved + (kNumFats * fatsz) + root_dir_sector_count
    IN  [type |-> IF fat16 THEN "kFat16" ELSE "kFat32",
         _bytes_per_sector |-> kSectorSizeBytes,
         _num_fats |-> kNumFats,
         _media_descriptor |-> kMediaDescriptor,
         _sectors_per_track |-> 63,
         _num_heads |-> TableLookup(kHeadsLadder, total_sectors, 1, 255),
         _total_sectors16 |-> IF fat16 /\ ULt(total_sectors, 4096) THEN total_sectors % 65536 ELSE 0,
         _total_sectors32 |-> IF fat16 /\ ULt(total_sectors, 4096) THEN 0 ELSE total_sectors,
         _reserved_sectors |-> reserved,
         _root_entry_count |-> root_entry_count,
         _sectors_per_cluster |-> spc,
         _sectors_per_fat16 |-> IF fat16 THEN fatsz % 65536 ELSE 0,
         sectors_per_fat |-> fatsz,
         first_data_lba |-> first_data_lba,
         root_dir_start_lba |-> IF fat16 THEN reserved + (kNumFats * (fatsz % 65536))
                                ELSE first_data_lba]

BootSector(geom, volumeLabel, serial) ==
    [kind |-> "boot", bpb |-> geom, _volume_label |-> BpbVolumeLabel(volumeLabel),
     _volume_serial |-> serial, signature |-> kMBRSignature]

FsInfoSector == [kind |-> "fsinfo"]

\* the first FAT sector of the FAT32 branch (lines 890-934)
Fat32Sector == [kind |-> "fat32",
                entries |-> <<268435200 + kMediaDescriptor,    \* 0x0fffff00 | media
                              kFat32EOC, kFat32EOC, kFat32EOC, kFat32EOC, kFat32EOC>>]

\* a result that tells whether the writer is still good
FatEmissionResult_checked(w) == IF good(w) THEN "true" ELSE "INTERNAL"
\* what create_fat_partition returns after the emission: writer->reset();
\* return true
FatEmissionResult(w) == "true"

\* a precondition that looks at the sector count only
FatPrecondition_sectors_only(w, total_sectors) == total_sectors # 0
\* the negation of  !writer->good() || !total_sectors
FatPrecondition(w, total_sectors) == good(w) /\ total_sectors # 0

\* returns [w, result, nodes, geom, oob]
create_fat_partition(w, total_sectors, volumeLabel, nodes, serial, junk, heap) ==
    IF ~FatPrecondition(w, total_sectors)
    THEN [w |-> w, result |-> "FAILED_PRECONDITION", nodes |-> nodes,
          geom |-> [type |-> "none"], oob |-> FALSE]
    ELSE
    LET geom == FatGeometry(total_sectors)
        w1 == write_at(blank_sector(w, 1), <<BootSector(geom, volumeLabel, serial)>>, 0, 1)
    IN  IF ~good(w1)
        THEN [w |-> w1, result |-> "INTERNAL", nodes |-> nodes, geom |-> geom, oob |-> FALSE]
        ELSE IF geom.type = "kFat16"
        THEN LET ctx == write_fat16(w1, geom, nodes)
                 w2 == write_fs_contents_to_disk(ctx.w, geom, volumeLabel, ctx.nodes, junk, heap)
             IN  [w |-> reset(w2), result |-> FatEmissionResult(w2), nodes |-> ctx.nodes, geom |-> geom,
                  oob |-> ctx.oob]
        ELSE LET w2 == write_at(blank_sector(w1, 1), <<FsInfoSector>>, 1, 1)
                 w3 == write_at(blank_sector(w2, 1), <<Fat32Sector>>, geom._reserved_sectors, 1)
                 w4 == write_fs_contents_to_disk(w3, geom, volumeLabel, nodes, junk, heap)
             IN  [w |-> reset(w4), result |-> FatEmissionResult(w4), nodes |-> nodes, geom |-> geom,
                  oob |-> FALSE]

(***************************************************************************)
(* Actions                                                                 *)
(***************************************************************************)
Names == 1..MaxNames
NodeCount == Cardinality(DOMAIN fs.nodes) - 1

Init ==
    /\ pc = "build"
    /\ fs = EmptyFs
    /\ writer = NoWriter
    /\ crc_static = [have_table |-> 0, table |-> EmptyTable]
    /\ part_info = [_first_usable_lba |-> 0, _last_usable_lba |-> 0]
    /\ fat_result = "none"
    /\ fat_geom = [type |-> "none"]
    /\ fat_oob = FALSE
    /\ label \in Labels
    /\ _reformat \in BOOLEAN
    /\ probe = NoProbe

\* fs_t::create_directory(parent, name); the name is new in the parent (assert)
CreateDirectory ==
    /\ pc = "build"
    /\ NodeCount < MaxNodes
    /\ \E parent \in DOMAIN fs.nodes, name \in Names :
        /\ fs.nodes[parent]._is_dir
        /\ Append(parent, name) \notin DOMAIN fs.nodes
        /\ fs' = create_directory(fs, parent, name)
    /\ UNCHANGED <<pc, writer, crc_static, part_info, fat_result, fat_geom, fat_oob, label, _reformat, probe>>

\* fs_t::create_file(parent, name, data, size); assert(data && size)
CreateFile ==
    /\ pc = "build"
    /\ NodeCount < MaxNodes
    /\ \E parent \in DOMAIN fs.nodes, name \in Names, size \in FileSizes :
        /\ fs.nodes[parent]._is_dir
        /\ Append(parent, name) \notin DOMAIN fs.nodes
        /\ fs' = create_file(fs, parent, name, size)
    /\ UNCHANGED <<pc, writer, crc_static, part_info, fat_result, fat_geom, fat_oob, label, _reformat, probe>>

\* main: disk_sector_writer_t::create_writer(output, fs.size())
CreateWriter ==
    /\ pc = "build"
    /\ \E existing \in ExistingFiles :
        writer' = create_writer(_reformat, existing, fs._size)
    /\ pc' = "writer"
    /\ UNCHANGED <<fs, crc_static, part_info, fat_result, fat_geom, fat_oob, label, _reformat, probe>>

\* main: if (!writer->using_existing()) create_blank_image(writer)
CreateBlankImage ==
    /\ pc = "writer"
    /\ writer' = IF writer._use_existing_image THEN writer ELSE create_blank_image(writer)
    /\ pc' = "blank"
    /\ UNCHANGED <<fs, crc_static, part_info, fat_result, fat_geom, fat_oob, label, _reformat, probe>>

\* main: gpt::create_efi_boot_image(writer)
CreateEfiBootImage ==
    /\ pc = "blank"
    /\ \E disk_guid \in Guids, part_guid \in Guids :
        \E r \in {create_efi_boot_image(writer, crc_static, disk_guid, part_guid)} :
            /\ writer' = r.w
            /\ crc_static' = r.st
            /\ part_info' = r.info
    /\ pc' = "gpt"
    /\ UNCHANGED <<fs, fat_result, fat_geom, fat_oob, label, _reformat, probe>>

\* main: fat::create_fat_partition(writer, part_info.num_sectors(), label, fs)
CreateFatPartition ==
    /\ pc = "gpt"
    /\ \E serial \in VolumeSerials, junk \in JunkClusters, heap \in HeapBytes :
        \E r \in {create_fat_partition(writer, num_sectors(part_info), label, fs.nodes,
                                       serial, junk, heap)} :
            /\ writer' = r.w
            /\ fat_result' = r.result
            /\ fat_geom' = r.geom
            /\ fs' = [fs EXCEPT !.nodes = r.nodes]
            /\ fat_oob' = r.oob
    /\ pc' = "done"
    /\ UNCHANGED <<crc_static, part_info, label, _reformat, probe>>

Next ==
    \/ CreateDirectory
    \/ CreateFile
    \/ CreateWriter
    \/ CreateBlankImage
    \/ CreateEfiBootImage
    \/ CreateFatPartition

Spec == Init /\ [][Next]_vars

(***************************************************************************)
(* The writer's methods and rc_crc32 called directly, in any order, on a   *)
(* new 128 MiB image.  probe records the call: its name and arguments,     *)
(* whether the writer was good before it, and origin, the LBA passed to    *)
(* the last set_pos that took effect (0 after the constructor).            *)
(***************************************************************************)
\* what a caller has put into the sector buffer
ProbeSector == [kind |-> "probe"]

WriterProbe(op, lba, origin) ==
    [op |-> op, lba |-> lba, origin |-> origin, was_good |-> good(writer),
     buf |-> <<>>, value |-> <<0, 0>>, had_table |-> 0]

UnitInit ==
    /\ pc = "unit"
    /\ fs = EmptyFs
    /\ writer = create_blank_image(create_writer(FALSE, NoFile, 1))
    /\ crc_static = [have_table |-> 0, table |-> EmptyTable]
    /\ part_info = [_first_usable_lba |-> 0, _last_usable_lba |-> 0]
    /\ fat_result = "none"
    /\ fat_geom = [type |-> "none"]
    /\ fat_oob = FALSE
    /\ label = <<>>
    /\ _reformat = FALSE
    /\ probe = [op |-> "create_writer", lba |-> 0, origin |-> 0, was_good |-> TRUE,
                buf |-> <<>>, value |-> <<0, 0>>, had_table |-> 0]

\* writer->set_pos(lba)
CallSetPos ==
    /\ pc = "unit"
    /\ \E lba \in 0..MaxLba :
        /\ writer._start_pos + lba <= MaxOrigin
        /\ writer' = set_pos(writer, lba)
        /\ probe' = WriterProbe("set_pos", lba, IF good(writer) THEN lba ELSE probe.origin)
    /\ UNCHANGED <<pc, fs, crc_static, part_info, fat_result, fat_geom, fat_oob, label, _reformat>>

\* writer->blank_sector(), fill the buffer, writer->write_at(lba, 1)
CallWriteAt ==
    /\ pc = "unit"
    /\ Len(writer.log) < MaxWrites
    /\ \E lba \in 0..MaxLba :
        /\ writer' = write_at(blank_sector(writer, 1), <<ProbeSector>>, lba, 1)
        /\ probe' = WriterProbe("write_at", lba, probe.origin)
    /\ UNCHANGED <<pc, fs, crc_static, part_info, fat_result, fat_geom, fat_oob, label, _reformat>>

\* writer->blank_sector(2), fill the buffer, writer->write_at_ex(lba, off, 1)
CallWriteAtEx ==
    /\ pc = "unit"
    /\ Len(writer.log) < MaxWrites
    /\ \E lba \in 0..MaxLba, off \in 0..1 :
        /\ writer' = write_at_ex(blank_sector(writer, 2), <<ProbeSector, ProbeSector>>, lba, off, 1)
        /\ probe' = WriterProbe("write_at_ex", lba, probe.origin)
    /\ UNCHANGED <<pc, fs, crc_static, part_info, fat_result, fat_geom, fat_oob, label, _reformat>>

\* writer->blank_sector(), fill the buffer, writer->write_sector()
CallWriteSector ==
    /\ pc = "unit"
    /\ Len(writer.log) < MaxWrites
    /\ writer' = write_sector(blank_sector(writer, 1), <<ProbeSector>>)
    /\ probe' = WriterProbe("write_sector", 0, probe.origin)
    /\ UNCHANGED <<pc, fs, crc_static, part_info, fat_result, fat_geom, fat_oob, label, _reformat>>

\* a sector write that the device refuses: _fs.write sets badbit and puts
\* nothing into the file
FailingWrite ==
    /\ pc = "unit"
    /\ good(writer)
    /\ writer' = [writer EXCEPT !.fs_good = FALSE]
    /\ probe' = WriterProbe("failed_write", 0, probe.origin)
    /\ UNCHANGED <<pc, fs, crc_static, part_info, fat_result, fat_geom, fat_oob, label, _reformat>>

\* utils::rc_crc32(0, buf, len)
CallRcCrc32 ==
    /\ pc = "unit"
    /\ \E buf \in CrcInputs :
        \E r \in {rc_crc32(crc_static, <<0, 0>>, buf)} :
            /\ crc_static' = r.st
            /\ probe' = [op |-> "rc_crc32", lba |-> 0, origin |-> probe.origin,
                         was_good |-> good(writer), buf |-> buf, value |-> r.value,
                         had_table |-> crc_static.have_table]
    /\ UNCHANGED <<pc, fs, writer, part_info, fat_result, fat_geom, fat_oob, label, _reformat>>

UnitNext ==
    \/ CallSetPos
    \/ CallWriteAt
    \/ CallWriteAtEx
    \/ CallWriteSector
    \/ FailingWrite
    \/ CallRcCrc32

UnitSpec == UnitInit /\ [][UnitNext]_vars

(***************************************************************************)
(* The run of main on chosen trees, with a device behind the image file    *)
(* that may refuse a sector while the formatter writes.  The trees are the *)
(* ones fs_t builds from a source directory: a chain of directories, a     *)
(* directory with many files, and a tree whose FAT entries fill the first  *)
(* FAT sector exactly before a directory's children are walked.            *)
(***************************************************************************)
\* the most files put into one directory
MaxWidth == 16
\* the most sectors the device takes from the formatter before it refuses one
MaxFail == 3

\* A/B/C/F with F a file of one byte
ChainTree ==
    create_file(
        create_directory(
            create_directory(
                create_directory(EmptyFs, Root, 1),
                <<1>>, 2),
            <<1, 2>>, 3),
        <<1, 2, 3>>, 6, 1)

\* n files of 4 bytes in the directory parent, named 'A' ...
RECURSIVE AddFiles(_, _, _)
AddFiles(f, parent, n) ==
    IF n = 0 THEN f
    ELSE create_file(AddFiles(f, parent, n - 1), parent, n, 4)

\* a root with n files
WideRootTree(n) == AddFiles(EmptyFs, Root, n)
\* a directory A with n files
WideDirTree(n) == AddFiles(create_directory(EmptyFs, Root, 1), <<1>>, n)

\* the size of a file whose chain, after the one entry of the directory
\* that holds it, ends at entry 254 of the first FAT sector (4 sectors to
\* the cluster on a 128 MiB image)
ChainFillingFileSize == (kMaxClustersPerFat16Sector - 2) * (4 * kSectorSizeBytes)

\* A, A/A (the file above), A/B, A/B/A: the EOC of A/B is the 256th entry
\* of the FAT sector and A/B/A is walked next
FullFatSectorTree ==
    create_file(
        create_directory(
            create_file(
                create_directory(EmptyFs, Root, 1),
                <<1>>, 1, ChainFillingFileSize),
            <<1>>, 2),
        <<1, 2>>, 1, 4)

ScenarioTrees ==
    {ChainTree, FullFatSectorTree}
        \cup {WideRootTree(n) : n \in 1..MaxWidth}
        \cup {WideDirTree(n) : n \in 1..MaxWidth}

ScenarioInit ==
    /\ pc = "build"
    /\ fs \in ScenarioTrees
    /\ writer = NoWriter
    /\ crc_static = [have_table |-> 0, table |-> EmptyTable]
    /\ part_info = [_first_usable_lba |-> 0, _last_usable_lba |-> 0]
    /\ fat_result = "none"
    /\ fat_geom = [type |-> "none"]
    /\ fat_oob = FALSE
    /\ label \in Labels
    /\ _reformat = FALSE
    /\ probe = NoProbe

\* main: fat::create_fat_partition(...) on a device that takes fail more
\* sectors (kNeverFails: every sector)
FormatOnDevice ==
    /\ pc = "gpt"
    /\ \E fail \in {kNeverFails} \cup (0..MaxFail), serial \in VolumeSerials,
          junk \in JunkClusters, heap \in HeapBytes :
        \E r \in {create_fat_partition([writer EXCEPT !.fs_fail_after = fail],
                                       num_sectors(part_info), label, fs.nodes,
                                       serial, junk, heap)} :
            /\ writer' = r.w
            /\ fat_result' = r.result
            /\ fat_geom' = r.geom
            /\ fs' = [fs EXCEPT !.nodes = r.nodes]
            /\ fat_oob' = r.oob
    /\ pc' = "done"
    /\ UNCHANGED <<crc_static, part_info, label, _reformat, probe>>

ScenarioNext ==
    \/ CreateWriter
    \/ CreateBlankImage
    \/ CreateEfiBootImage
    \/ FormatOnDevice

ScenarioSpec == ScenarioInit /\ [][ScenarioNext]_vars

(***************************************************************************)
(* The run of main on a root that holds one large file.  The image is      *)
(* sized from the file, partitioned, and formatted; the file's data is     *)
(* kept as the span of absolute sectors write_file writes, first to last,  *)
(* and its FAT chain is left out.                                          *)
(***************************************************************************)
\* file sizes step down from each multiple of 128 MiB by up to this many steps
MaxPlanStep == 6
\* one step: 128 sectors
kPlanStepBytes == 128 * kSectorSizeBytes
\* the multiples of 128 MiB up to 512 MiB and sizes a few steps below them
PlanFileSizes ==
    {(k * (k128MiBSectors * kSectorSizeBytes)) - (j * kPlanStepBytes) :
        k \in 1..4, j \in 0..MaxPlanStep}

PlanInit ==
    /\ pc = "build"
    /\ fs = EmptyFs
    /\ writer = NoWriter
    /\ crc_static = [have_table |-> 0, table |-> EmptyTable]
    /\ part_info = [_first_usable_lba |-> 0, _last_usable_lba |-> 0]
    /\ fat_result = "none"
    /\ fat_geom = [type |-> "none"]
    /\ fat_oob = FALSE
    /\ label \in Labels
    /\ _reformat = FALSE
    /\ probe = NoProbe

\* fs_t::create_file(&_root, "A", data, size)
PlanCreateFile ==
    /\ pc = "build"
    /\ NodeCount = 0
    /\ \E size \in PlanFileSizes : fs' = create_file(fs, Root, 1, size)
    /\ UNCHANGED <<pc, writer, crc_static, part_info, fat_result, fat_geom, fat_oob, label, _reformat, probe>>

\* the span of absolute sectors write_file writes for the file at path p,
\* whose first sector is at partition-relative file_sector
FileSpan(w, nodes, p, file_sector) ==
    LET w1 == FileSeek(w, file_sector)
    IN  [op |-> "write_file", first |-> tellp(w1),
         last |-> tellp(w1) + FileSectorCount(nodes[p]._size) - 1]

\* main: fat::create_fat_partition(...) for the root with the one file A:
\* the boot sector, the start cluster of A (the first one the walk hands
\* out), the root directory, and the span of A's data
PlanFormat ==
    /\ pc = "gpt"
    /\ DOMAIN fs.nodes = {Root, <<1>>}
    /\ FatPrecondition(writer, num_sectors(part_info))
    /\ \E serial \in VolumeSerials :
        LET geom == FatGeometry(num_sectors(part_info))
            nodes == [fs.nodes EXCEPT ![<<1>>]._start_cluster = kFirstFreeCluster,
                                      ![<<1>>].assigned = TRUE]
            w1 == write_at(blank_sector(writer, 1), <<BootSector(geom, label, serial)>>, 0, 1)
            w2 == write_at(blank_sector(w1, 1),
                           <<DirSector(<<DirEntry(label, kVolumeId, 0, 0)>>
                                       \o ChildEntries(nodes, Root, 0))>>,
                           geom.root_dir_start_lba, 1)
            file_sector == cluster_to_lba(geom, StartCluster(nodes, <<1>>, 0))
        IN  /\ geom.type = "kFat16"
            /\ good(w1)
            /\ writer' = reset(FileSeek(w2, file_sector))
            /\ probe' = FileSpan(w2, nodes, <<1>>, file_sector)
            /\ fat_geom' = geom
            /\ fs' = [fs EXCEPT !.nodes = nodes]
            /\ fat_result' = FatEmissionResult(w2)
    /\ pc' = "done"
    /\ UNCHANGED <<crc_static, part_info, fat_oob, label, _reformat>>

PlanNext ==
    \/ PlanCreateFile
    \/ CreateWriter
    \/ CreateBlankImage
    \/ CreateEfiBootImage
    \/ PlanFormat

PlanSpec == PlanInit /\ [][PlanNext]_vars

(***************************************************************************)
(* Reading the image back                                                  *)
(***************************************************************************)
\* the GPT engine has returned and left the writer good
GptSucceeded == pc = "gpt" /\ good(writer)
\* a full run whose formatter returned true on a FAT16 partition
Fat16RunDone == pc = "done" /\ fat_result = "true" /\ fat_geom.type = "kFat16"

FileNodes == {p \in DOMAIN fs.nodes : ~fs.nodes[p]._is_dir}
DirNodes == {p \in DOMAIN fs.nodes : fs.nodes[p]._is_dir /\ p # Root}
BytesPerCluster == fat_geom._sectors_per_cluster * kSectorSizeBytes
CeilDiv(a, b) == (a + b - 1) \div b

\* the sector at partition-relative LBA lba
PartitionSector(lba) == ReadSector(writer, part_info._first_usable_lba + lba)

\* entry i of the first FAT as it is on disk
DiskFat16(i) ==
    LET sec == PartitionSector(fat_geom._reserved_sectors + (i \div kMaxClustersPerFat16Sector))
    IN  IF sec.kind = "fat16" THEN sec.entries[i % kMaxClustersPerFat16Sector] ELSE 0

PrimaryHeaderSector == ReadSector(writer, 1)
BackupHeaderSector == ReadSector(writer, last_lba(writer))

\* CRC32 of the 92 header bytes with header_crc32 set to zero
HeaderCrcVerifies(sec) ==
    /\ sec.kind = "gpt_header"
    /\ rc_crc32(crc_static, <<0, 0>>,
                GptHeaderBytes([sec.hdr EXCEPT !._header_crc32 = <<0, 0>>])).value
         = sec.hdr._header_crc32

(***************************************************************************)
(* Claims                                                                  *)
(***************************************************************************)

\* C1: after a full run on a FAT16 partition every file's bytes lie on disk
\* from absolute sector first_usable_lba + cluster_to_lba(start_cluster) on,
\* whatever the number and order of files and directories.
C1_FileBytesAtStartCluster ==
    Fat16RunDone =>
        \A p \in FileNodes :
            \A k \in 0..(CeilDiv(fs.nodes[p]._size, kSectorSizeBytes) - 1) :
                LET sec == PartitionSector(cluster_to_lba(fat_geom, fs.nodes[p]._start_cluster) + k)
                IN  /\ sec.kind = "data"
                    /\ sec.file = p
                    /\ sec.from = k * kSectorSizeBytes
                    /\ sec.len = IF fs.nodes[p]._size - k * kSectorSizeBytes < kSectorSizeBytes
                                 THEN fs.nodes[p]._size - k * kSectorSizeBytes
                                 ELSE kSectorSizeBytes

\* C2: for a file larger than one cluster the on-disk FAT16 chain read from
\* index start_cluster holds i + 1 at every non-terminal index i and reaches
\* 0xFFF8 after exactly ceil(size / bytes_per_cluster) entries.
C2_FatChainOfLargeFile ==
    Fat16RunDone =>
        \A p \in FileNodes :
            fs.nodes[p]._size > BytesPerCluster =>
                LET n == CeilDiv(fs.nodes[p]._size, BytesPerCluster)
                    start == fs.nodes[p]._start_cluster
                IN  /\ \A j \in 0..(n - 2) : DiskFat16(start + j) = start + j + 1
                    /\ DiskFat16(start + n - 1) = kFat16EOC

\* C3: for every directory and every file of at most one cluster the on-disk
\* FAT16 entry at the node's start cluster holds 0xFFF8.
C3_FatEocAtStartCluster ==
    Fat16RunDone =>
        \A p \in DirNodes \cup {f \in FileNodes : fs.nodes[f]._size <= BytesPerCluster} :
            DiskFat16(fs.nodes[p]._start_cluster) = kFat16EOC

\* C4: for every file the bytes from the end of its data to the next sector
\* boundary are zero on disk, and no byte beyond the file's buffer is read
\* to produce them.
C4_FileTailZeroPadded ==
    Fat16RunDone =>
        \A l \in DOMAIN writer.fs_data :
            writer.fs_data[l].kind = "data" =>
                /\ writer.fs_data[l].pad = "zero"
                /\ writer.fs_data[l].overread = 0

\* C5: the GPT engine returns first_usable_lba = 34 and last_usable_lba =
\* last_lba - 34, and the primary header and the partition entry store the
\* same two values.
C5_PartitionWindow ==
    GptSucceeded =>
        /\ part_info._first_usable_lba = 34
        /\ part_info._last_usable_lba = last_lba(writer) - 34
        /\ PrimaryHeaderSector.kind = "gpt_header"
        /\ PrimaryHeaderSector.hdr._first_usable_lba = part_info._first_usable_lba
        /\ PrimaryHeaderSector.hdr._last_usable_lba = part_info._last_usable_lba
        /\ ReadSector(writer, 2).kind = "gpt_partition"
        /\ ReadSector(writer, 2).part._start_lba = part_info._first_usable_lba
        /\ ReadSector(writer, 2).part._end_lba = part_info._last_usable_lba

\* C6: after the GPT engine the primary header at LBA 1 has
\* partition_entry_lba = 2 and the backup header at LBA last_lba has
\* partition_entry_lba = last_lba - 32.
C6_PartitionEntryLba ==
    GptSucceeded =>
        /\ PrimaryHeaderSector.kind = "gpt_header"
        /\ PrimaryHeaderSector.hdr._partition_entry_lba = 2
        /\ BackupHeaderSector.kind = "gpt_header"
        /\ BackupHeaderSector.hdr._partition_entry_lba = last_lba(writer) - 32

\* C7: after the GPT engine on a freshly zero-filled image the sectors
\* LBA 2..33 equal the sectors LBA last_lba-32..last_lba-1 one by one.
C7_PartitionArraysIdentical ==
    (GptSucceeded /\ ~writer._use_existing_image) =>
        \A k \in 0..31 :
            ReadSector(writer, 2 + k) = ReadSector(writer, last_lba(writer) - 32 + k)

\* C8: the primary header read back from LBA 1 and the backup header read
\* back from LBA last_lba each carry the CRC32 of their own 92 bytes taken
\* with header_crc32 set to zero.
C8_HeaderCrcVerifies ==
    GptSucceeded =>
        /\ HeaderCrcVerifies(PrimaryHeaderSector)
        /\ HeaderCrcVerifies(BackupHeaderSector)

\* the engine has written two headers whose CRCs are not zero and differ
C8_Witness ==
    /\ GptSucceeded
    /\ PrimaryHeaderSector.kind = "gpt_header"
    /\ BackupHeaderSector.kind = "gpt_header"
    /\ PrimaryHeaderSector.hdr._header_crc32 # <<0, 0>>
    /\ BackupHeaderSector.hdr._header_crc32 # <<0, 0>>
    /\ PrimaryHeaderSector.hdr._header_crc32 # BackupHeaderSector.hdr._header_crc32

\* C9: the primary header has my_lba = 1 and alternate_lba = last_lba, the
\* backup header has my_lba = last_lba and alternate_lba = 1, and each lies
\* in the sector its own my_lba names.
C9_HeadersCrossReference ==
    GptSucceeded =>
        /\ PrimaryHeaderSector.kind = "gpt_header"
        /\ BackupHeaderSector.kind = "gpt_header"
        /\ PrimaryHeaderSector.hdr._my_lba = 1
        /\ PrimaryHeaderSector.hdr._alternate_lba = last_lba(writer)
        /\ BackupHeaderSector.hdr._my_lba = last_lba(writer)
        /\ BackupHeaderSector.hdr._alternate_lba = 1
        /\ ReadSector(writer, PrimaryHeaderSector.hdr._my_lba) = PrimaryHeaderSector
        /\ ReadSector(writer, BackupHeaderSector.hdr._my_lba) = BackupHeaderSector

\* the engine has written a backup header into the last sector of an image
\* of more than two sectors
C9_Witness ==
    /\ GptSucceeded
    /\ last_lba(writer) > 1
    /\ BackupHeaderSector.kind = "gpt_header"
    /\ BackupHeaderSector.hdr._my_lba = last_lba(writer)
    /\ writer.log = <<0, 1, 2, last_lba(writer) - 1, last_lba(writer)>>

\* C10: for every image size the protective MBR's partition record has OS
\* type 0xEE, starting LBA 1 and size_in_lba = min(total_sectors - 1,
\* 0xFFFFFFFF); every image of the model has fewer than 2^31 sectors, so the
\* minimum is total_sectors - 1.
C10_ProtectiveMbrSize ==
    GptSucceeded =>
        LET mbr == ReadSector(writer, 0)
        IN  /\ mbr.kind = "mbr"
            /\ mbr._os_type = 238
            /\ mbr._starting_lba = ToU32(1)
            /\ mbr._size_in_lba = ToU32(writer._total_sectors - 1)

(***************************************************************************)
(* Claims about the image size, the order of writes and the formatter      *)
(***************************************************************************)
\* a run that reached the end with the formatter returning true
RunDone == pc = "done" /\ fat_result = "true"

\* C11: for every content size c >= 0, c = 0 included, a newly created
\* image has max(c, 128 MiB) rounded up to a multiple of 128 MiB as its
\* capacity; the empty tree gives 262144 sectors.
C11_ImageCapacity ==
    (pc = "writer" /\ ~writer._use_existing_image) =>
        writer._total_sectors =
            (IF fs._size > 134217728 THEN CeilDiv(fs._size, 134217728) ELSE 1) * 262144

\* C12: in reformat mode with an output file smaller than the required
\* size, the file is truncated and zero-filled to the required size, the
\* writer is good, and the run ends as one on a new file does.
C12_ReformatSmallFile ==
    (_reformat /\ ~writer._use_existing_image) =>
        /\ pc = "blank" =>
            /\ good(writer)
            /\ writer.fs_stale = 0
            /\ writer.fs_len = writer._total_sectors
        /\ (pc = "done" /\ fs._size > 0) => fat_result = "true"

\* the sectors of the backup GPT: the last 33 of the image
IsBackupGptLba(lba) == lba >= last_lba(writer) - 32

\* C13: in a full run the sector writes start with the MBR, the primary
\* header and the primary partition array, and no sector of the backup GPT
\* is written before the last FAT, directory or file sector.
C13_WriteOrder ==
    RunDone =>
        /\ Len(writer.log) >= 3
        /\ SubSeq(writer.log, 1, 3) = <<0, 1, 2>>
        /\ \A i, j \in 1..Len(writer.log) :
            (i < j /\ IsBackupGptLba(writer.log[i])) => IsBackupGptLba(writer.log[j])

\* C14: set_pos takes an absolute LBA: after set_pos(L) on a good writer
\* the origin is L whatever it was before, and a write_at(k) that follows
\* lands at absolute sector L + k.
C14_SetPosAbsolute ==
    (pc = "unit" /\ probe.was_good /\ good(writer)) =>
        /\ probe.op = "set_pos" => writer._start_pos = probe.lba
        /\ probe.op = "write_at" =>
            writer.log[Len(writer.log)] = probe.origin + probe.lba

\* C15: once the writer is not good it stays not good, and no later call of
\* write_sector, write_at, write_at_ex or set_pos changes the image file.
C15_FailureSticky ==
    [][(pc = "unit" /\ ~good(writer)) =>
            /\ ~good(writer')
            /\ writer'.fs_data = writer.fs_data
            /\ writer'.fs_len = writer.fs_len
            /\ writer'.log = writer.log]_vars

\* a sector was written, a later write failed, and a write method was
\* called on the writer after that
C15_Witness ==
    /\ pc = "unit"
    /\ ~good(writer)
    /\ ~probe.was_good
    /\ probe.op \in {"write_sector", "write_at", "write_at_ex", "set_pos"}
    /\ Len(writer.log) > 0

\* C16: create_fat_partition called with a writer that is not good, or with
\* total_sectors = 0, returns FAILED_PRECONDITION and writes no sector.
C16_FatPreconditionFails ==
    [][(pc = "gpt" /\ pc' = "done" /\ (~good(writer) \/ num_sectors(part_info) = 0)) =>
            /\ fat_result' = "FAILED_PRECONDITION"
            /\ writer'.log = writer.log
            /\ writer'.fs_data = writer.fs_data
            /\ writer'.fs_len = writer.fs_len]_vars

\* the formatter has refused a good writer whose partition has no sector
C16_Witness ==
    /\ pc = "done"
    /\ fat_result = "FAILED_PRECONDITION"
    /\ good(writer)
    /\ num_sectors(part_info) = 0
    /\ writer.log = <<0, 1, 2, last_lba(writer) - 1, last_lba(writer)>>

\* C17: the formatter picks FAT16 exactly when total_sectors * 512 is below
\* 0x20000000, that is total_sectors < 1048576, and FAT32 otherwise; the
\* boot sector on disk is the one of that type.
C17_FatTypeBySize ==
    RunDone =>
        /\ fat_geom.type = (IF num_sectors(part_info) < 1048576 THEN "kFat16" ELSE "kFat32")
        /\ PartitionSector(0).kind = "boot"
        /\ PartitionSector(0).bpb.type = fat_geom.type
        /\ PartitionSector(0).bpb._reserved_sectors = (IF fat_geom.type = "kFat16" THEN 1 ELSE 32)

\* a partition of exactly 0x20000000 bytes has been formatted as FAT32
C17_Witness ==
    /\ RunDone
    /\ num_sectors(part_info) = 1048576
    /\ fat_geom.type = "kFat32"

\* the label as the specification states it: 11 bytes, cut or padded with spaces
PaddedLabel == [i \in 1..11 |-> IF i <= Len(label) THEN label[i] ELSE 32]

\* C18: for a volume label of any length the boot sector holds the label
\* cut or space-padded to 11 bytes, and the first entry of the root
\* directory on disk has the same 11 bytes as its short name and the
\* attribute 0x08.
C18_VolumeLabelMatches ==
    RunDone =>
        LET boot == PartitionSector(0)
            root == PartitionSector(fat_geom.root_dir_start_lba)
        IN  /\ boot.kind = "boot"
            /\ boot._volume_label = PaddedLabel
            /\ root.kind = "dir"
            /\ root.entries[1]._short_name = boot._volume_label
            /\ root.entries[1]._attrib = 8

\* C19: for every directory D besides the root, the sector at
\* cluster_to_lba(D.start_cluster) of the partition starts with the entry
\* '.' naming D's start cluster and the entry '..' naming the start cluster
\* of D's parent, 0 for the root, both with attribute 0x10.
C19_DotEntries ==
    Fat16RunDone =>
        \A d \in DirNodes :
            LET sec == PartitionSector(cluster_to_lba(fat_geom, fs.nodes[d]._start_cluster))
            IN  /\ sec.kind = "dir"
                /\ Len(sec.entries) >= 2
                /\ sec.entries[1]._short_name = <<46, 32, 32, 32, 32, 32, 32, 32, 32, 32, 32>>
                /\ sec.entries[1]._first_cluster_lo = fs.nodes[d]._start_cluster
                /\ sec.entries[1]._attrib = 16
                /\ sec.entries[2]._short_name = <<46, 46, 32, 32, 32, 32, 32, 32, 32, 32, 32>>
                /\ sec.entries[2]._first_cluster_lo =
                        (IF Parent(d) = Root THEN 0 ELSE fs.nodes[Parent(d)]._start_cluster)
                /\ sec.entries[2]._attrib = 16

\* C20: rc_crc32 called with initial value 0 on the bytes "123456789"
\* returns 0xCBF43926, on the call that builds the table and on every later
\* call.
C20_CrcCheckValue ==
    (probe.op = "rc_crc32" /\ probe.buf = <<49, 50, 51, 52, 53, 54, 55, 56, 57>>) =>
        probe.value = <<52212, 14630>>

\* "123456789" has been summed by a call that found the table built
C20_Witness ==
    /\ probe.op = "rc_crc32"
    /\ probe.buf = <<49, 50, 51, 52, 53, 54, 55, 56, 57>>
    /\ probe.had_table = 1
    /\ probe.value = <<52212, 14630>>

(***************************************************************************)
(* Claims about cluster allocation, the FAT sector and re-used images      *)
(***************************************************************************)
\* C21: in the FAT walk a file of size bytes moves next_free_cluster on by
\* ceil(size / bytes_per_cluster), so the node visited after the file gets
\* the file's start cluster plus that number, for one cluster and for more.
C21_FileAdvancesByNumClusters ==
    Fat16RunDone =>
        LET order == PreOrder(fs.nodes, Root)
        IN  \A i \in 1..(Len(order) - 1) :
                ~fs.nodes[order[i]]._is_dir =>
                    fs.nodes[order[i + 1]]._start_cluster =
                        fs.nodes[order[i]]._start_cluster
                            + CeilDiv(fs.nodes[order[i]]._size, BytesPerCluster)

\* C24: after the formatter has run on a FAT16 partition, for every tree,
\* the empty root included, the first FAT sector on disk has 0xFFF8
\* (0xFF00 | media descriptor) in entry 0 and 0xFFF8 in entry 1.
C24_ReservedFatEntries ==
    Fat16RunDone =>
        /\ PartitionSector(fat_geom._reserved_sectors).kind = "fat16"
        /\ DiskFat16(0) = 65528
        /\ DiskFat16(1) = 65528

\* C26: in reformat mode on a file at least as large as the target the
\* file keeps its length and, after the run, no sector of it holds the
\* earlier image's content: every sector below the earlier length has been
\* written by this run.
C26_ReusedImageFullyRewritten ==
    (pc = "done" /\ writer._use_existing_image /\ fat_result = "true") =>
        /\ writer.fs_len >= writer.fs_stale
        /\ Cardinality({l \in DOMAIN writer.fs_data : l < writer.fs_stale}) = writer.fs_stale

\* C29: when the formatter takes the FAT32 path on a tree that is not
\* empty, every directory and file has a start cluster assigned, 3 or
\* more and different from every other node's, when its directory entry
\* and its data are written.
C29_Fat32ClustersAssigned ==
    (RunDone /\ fat_geom.type = "kFat32") =>
        /\ \A p \in DirNodes \cup FileNodes :
            /\ fs.nodes[p].assigned
            /\ fs.nodes[p]._start_cluster >= 3
        /\ \A p, q \in DirNodes \cup FileNodes :
            p # q => fs.nodes[p]._start_cluster # fs.nodes[q]._start_cluster

(***************************************************************************)
(* Claims checked on the chosen trees (ScenarioSpec)                       *)
(***************************************************************************)
\* the directory sector of d as it is on disk: the root directory's first
\* sector, or the first sector of d's cluster
DiskDirSector(d) ==
    PartitionSector(IF d = Root THEN fat_geom.root_dir_start_lba
                    ELSE cluster_to_lba(fat_geom, fs.nodes[d]._start_cluster))
\* the on-disk entry of node p in its parent's directory sector carries p's
\* start cluster in first_cluster_lo
DiskEntryCarriesCluster(p) ==
    LET sec == DiskDirSector(Parent(p))
    IN  /\ sec.kind = "dir"
        /\ \E i \in 1..Len(sec.entries) :
            /\ sec.entries[i]._short_name = set_name(NameStr(p))
            /\ sec.entries[i]._first_cluster_lo = fs.nodes[p]._start_cluster
\* the tree is A/B/C/F
IsChainTree == DOMAIN fs.nodes = DOMAIN ChainTree.nodes

\* C22: on the FAT16 path start clusters are handed out in depth-first
\* pre-order from cluster 2: the first node walked gets 2 and the node walked
\* after a directory gets the directory's cluster plus one.  For A/B/C/F with
\* a one-byte file F the clusters are A = 2, B = 3, C = 4, F = 5, and the
\* directory entries on disk carry these values in first_cluster_lo.
C22_PreOrderClusters ==
    (Fat16RunDone /\ NodeCount > 0) =>
        LET order == PreOrder(fs.nodes, Root)
        IN  /\ fs.nodes[order[1]]._start_cluster = 2
            /\ \A i \in 1..(Len(order) - 1) :
                fs.nodes[order[i]]._is_dir =>
                    fs.nodes[order[i + 1]]._start_cluster = fs.nodes[order[i]]._start_cluster + 1
            /\ IsChainTree =>
                /\ fs.nodes[<<1>>]._start_cluster = 2
                /\ fs.nodes[<<1, 2>>]._start_cluster = 3
                /\ fs.nodes[<<1, 2, 3>>]._start_cluster = 4
                /\ fs.nodes[<<1, 2, 3, 6>>]._start_cluster = 5
                /\ good(writer) => \A p \in DOMAIN fs.nodes \ {Root} : DiskEntryCarriesCluster(p)
\* the run on A/B/C/F has finished on a device that took every sector, and
\* F's entry in C's directory sector carries cluster 5
C22_Witness ==
    /\ Fat16RunDone
    /\ IsChainTree
    /\ good(writer)
    /\ fs.nodes[<<1, 2, 3, 6>>]._start_cluster = 5
    /\ DiskEntryCarriesCluster(<<1, 2, 3, 6>>)

\* C23: the FAT walk never stores at or beyond the end of its one-sector
\* scratch buffer, also when a directory's EOC is the 256th entry of the
\* sector and the walk goes on into the directory's children.
C23_FatStoresInsideSector ==
    pc = "done" => ~fat_oob

\* C25: once the boot sector has been written, create_fat_partition returns
\* true whatever happens to the writes that follow, a refused write included.
C25_TrueAfterBootSector ==
    (pc = "done" /\ PartitionSector(0).kind = "boot") => fat_result = "true"
\* the boot sector is on disk, a later write was refused, and the formatter
\* returned true
C25_Witness ==
    /\ pc = "done"
    /\ PartitionSector(0).kind = "boot"
    /\ ~good(writer)
    /\ fat_result = "true"

\* C28: a directory's emission stores at most 16 entries in the one-sector
\* scratch buffer, the label entry (root) or the '.' and '..' entries
\* (other directories) included.
C28_DirectoryFitsSector ==
    pc = "done" =>
        \A l \in DOMAIN writer.fs_data :
            writer.fs_data[l].kind = "dir" => writer.fs_data[l].overrun = 0

(***************************************************************************)
(* Claims about sizes and positions (PlanSpec)                             *)
(***************************************************************************)
\* the number of clusters of the data region of the formatted partition
DataClusters ==
    (num_sectors(part_info) - fat_geom.first_data_lba) \div fat_geom._sectors_per_cluster

\* C27: with the image sized by create_writer from the tree's size, a size
\* that is an exact multiple of 128 MiB included, every sector the formatter
\* writes lies at an absolute LBA within [first_usable_lba, last_usable_lba].
C27_FormatterWritesInsidePartition ==
    (pc = "done" /\ probe.op = "write_file") =>
        /\ part_info._first_usable_lba <= probe.first
        /\ probe.last <= part_info._last_usable_lba

\* C30: for the partition of an image whose size is a multiple of 128 MiB,
\* on the FAT16 path, sectors_per_fat fits in 16 bits, sectors_per_fat * 256
\* is at least the number of data clusters + 2, and the number of data
\* clusters is below 65525.
C30_Fat16GeometryFits ==
    (pc = "done" /\ fat_geom.type = "kFat16"
        /\ writer._total_sectors % k128MiBSectors = 0) =>
        /\ fat_geom.sectors_per_fat < 65536
        /\ fat_geom.sectors_per_fat = fat_geom._sectors_per_fat16
        /\ fat_geom.sectors_per_fat * kMaxClustersPerFat16Sector >= DataClusters + 2
        /\ DataClusters < 65525
\* the partition of a 512 MiB image has been formatted as FAT16 with 16
\* sectors to the cluster
C30_Witness ==
    /\ pc = "done"
    /\ fat_geom.type = "kFat16"
    /\ writer._total_sectors = 4 * k128MiBSectors
    /\ fat_geom._sectors_per_cluster = 16
    /\ DataClusters > 0

====
